---- MODULE Spec2Model ----
(***************************************************************************)
(* Model of cobalt-aws src/s3/mod.rs: the S3 convenience wrappers          *)
(*   list_objects  - paginated bucket listing flattened into one stream    *)
(*   get_object    - object retrieval as an AsyncBufRead                   *)
(*   get_client    - client construction with the LocalStack override      *)
(* and the two stream bridges FuturesPaginiationStream and                 *)
(* FuturesStreamCompatByteStream.                                          *)
(*                                                                         *)
(* Options are encoded as sequences: None == <<>>, Some(x) == <<x>>.       *)
(* Strings that are inspected character by character (keys, prefixes,      *)
(* object bodies) are sequences of one-character strings.                  *)
(***************************************************************************)
EXTENDS Integers, Sequences, FiniteSets, TLC

\* ---------------------------------------------------------------- bounds
\* number of keys of the key universe the test bucket may hold
NumKeys == 3
\* largest number of entries the service puts in one listing page
MaxPageSize == 2
\* how many empty listing pages the service may interleave
MaxEmptyPages == 1
\* how many requests / body reads may fail with a transport error
MaxFaults == 1
\* largest chunk the transport hands to the SDK body
MaxChunk == 2
\* how many empty chunks the transport may interleave in a body
MaxEmptyChunks == 1
\* largest buffer the caller passes to one read
MaxBuf == 2

\* ---------------------------------------------------------------- options
None == <<>>

Some(x) == <<x>>

\* ---------------------------------------------------------------- service data
\* Ordered key universe; the bucket holds a subsequence of its first NumKeys.
KeyUniverse ==
    << <<"p", "/", "n", "/", "f">>,
       <<"p", "/", "f">>,
       <<"p", "q">>,
       <<"t">>,
       <<"m">> >>

\* bytes of "test data\n", the pattern the stored bodies are cut from
BytePattern == <<116, 101, 115, 116, 32, 100, 97, 116, 97, 10>>

\* stored body of the i-th key: 0, 2, 4, .. bytes
BodyOf(i) == SubSeq(BytePattern, 1, 2 * (i - 1))

Object(i) == [key |-> KeyUniverse[i], size |-> Len(BodyOf(i))]

\* keys a caller asks for: the universe's keys and one that is never stored
GetKeys == {KeyUniverse[i] : i \in 1..NumKeys} \cup {<<"z">>}

KeyIndex(key) == CHOOSE i \in 1..NumKeys : KeyUniverse[i] = key

RECURSIVE SubSeqOf(_, _)
\* the objects of the universe whose index is in mask, in universe order
SubSeqOf(mask, i) ==
    IF i > NumKeys THEN <<>>
    ELSE (IF i \in mask THEN <<Object(i)>> ELSE <<>>) \o SubSeqOf(mask, i + 1)

BucketNames == {"test-bucket", "empty-bucket", "non-existant-bucket"}

Prefixes ==
    { None, Some(<<"p">>), Some(<<"p", "/">>), Some(<<"p", "/", "n">>),
      Some(<<"e">>) }

\* str::starts_with on character sequences
StartsWith(key, pre) ==
    /\ Len(pre) <= Len(key)
    /\ \A i \in 1..Len(pre) : key[i] = pre[i]

RECURSIVE Matching(_, _)
\* S3 ListObjectsV2 prefix filter: literal prefix match, service order kept
Matching(objs, prefix) ==
    IF objs = <<>> THEN <<>>
    ELSE (IF prefix = None \/ StartsWith(Head(objs).key, prefix[1])
          THEN <<Head(objs)>> ELSE <<>>) \o Matching(Tail(objs), prefix)

\* ---------------------------------------------------------------- items
Ok(v) == [ok |-> TRUE, val |-> v, err |-> "-"]

Err(e) == [ok |-> FALSE, val |-> <<>>, err |-> e]

Pending == [ready |-> FALSE, item |-> None]

Ready(optItem) == [ready |-> TRUE, item |-> optItem]

\* ---------------------------------------------------------------- list_objects
\* tokio mpsc channel(1) inside the rendezvous channel of an FnStream
ChanCap == 1

\* the paginator's stop_on_duplicate_token default
StopOnDuplicateToken == TRUE

\* variant: the request names a fixed bucket instead of the caller's
ListRequestFixedBucket(bucket, prefix) ==
    [bucket |-> "test-bucket", prefix |-> prefix]

\* variant: the prefix is not passed on to the request
ListRequestNoPrefix(bucket, prefix) == [bucket |-> bucket, prefix |-> None]

\* variant: the prefix is turned into a directory prefix
ListRequestDirPrefix(bucket, prefix) ==
    [bucket |-> bucket,
     prefix |-> IF prefix = None \/ prefix[1][Len(prefix[1])] = "/"
                THEN prefix ELSE Some(Append(prefix[1], "/"))]

\* client.list_objects_v2().bucket(bucket).set_prefix(prefix)
ListRequest(bucket, prefix) == [bucket |-> bucket, prefix |-> prefix]

\* .into_paginator().send(): a lazy stream, nothing requested yet
NewPaginator ==
    [pc |-> "init", token |-> None, done |-> FALSE, held |-> None,
     chan |-> <<>>, perm |-> 0, need |-> FALSE, closed |-> FALSE]

\* TryFlatMap::new(..).flat_map(..): a lazy stream around the paginator
NewFlatMap ==
    [pc |-> "next", buf |-> <<>>, held |-> None,
     chan |-> <<>>, perm |-> 0, need |-> FALSE, closed |-> FALSE]

\* variant: only the first entry of a page is kept
FlatMapFnFirst(page) ==
    IF page.contents = None \/ page.contents[1] = <<>> THEN <<>>
    ELSE <<Head(page.contents[1])>>

\* variant: absent contents become one default Object
FlatMapFnPlaceholder(page) ==
    IF page.contents = None THEN <<[key |-> <<>>, size |-> 0]>>
    ELSE page.contents[1]

\* the closure |x| x.contents.unwrap_or_default()
FlatMapFn(page) == IF page.contents = None THEN <<>> ELSE page.contents[1]

\* rendezvous::Receiver::poll_recv on a stream record c
RxPollRecv(c) ==
    IF c.chan # <<>>
    THEN [c |-> [c EXCEPT !.chan = Tail(@), !.need = TRUE],
          res |-> Ready(Some(Head(c.chan)))]
    ELSE IF c.closed
    THEN [c |-> [c EXCEPT !.need = TRUE], res |-> Ready(None)]
    ELSE [c |-> IF c.need THEN [c EXCEPT !.need = FALSE, !.perm = @ + 1] ELSE c,
          res |-> Pending]

\* the paginator's loop exit: last page (no usable token) or a failed request
PageDone(ok, dup, isEmpty) == IF ok THEN (dup \/ isEmpty) ELSE TRUE

\* the paginator sends one ListObjectsV2 request carrying its current token
IssueRequest(w) ==
    [w EXCEPT !.net = Append(@, [state |-> "inflight", token |-> w.pag.token,
                                 resp |-> None]),
              !.issued = Append(@, [token |-> w.pag.token,
                                    delivered |-> w.delivered,
                                    served |-> w.served])]

RECURSIVE PagRun(_)
\* one poll of the paginator's generator future: runs until it blocks
PagRun(w) ==
    LET p == w.pag IN
    CASE p.pc = "init" ->
           PagRun(IssueRequest([w EXCEPT !.pag.pc = "orchestrate"]))
      [] p.pc = "orchestrate" ->
           IF w.net # <<>> /\ Head(w.net).state = "resp"
           THEN LET resp == Head(w.net).resp[1]
                    newTok == IF resp.ok THEN resp.val.next ELSE None
                    isEmpty == newTok = None
                    dup == /\ resp.ok
                           /\ ~isEmpty
                           /\ newTok = p.token
                           /\ StopOnDuplicateToken
                    done == PageDone(resp.ok, dup, isEmpty)
                    tok == IF resp.ok /\ ~dup THEN newTok ELSE p.token
                IN PagRun([w EXCEPT !.net = Tail(@),
                                    !.pag.pc = "send",
                                    !.pag.held = Some(resp),
                                    !.pag.done = done,
                                    !.pag.token = tok])
           ELSE w
      [] p.pc = "send" ->
           IF Len(p.chan) < ChanCap
           THEN PagRun([w EXCEPT !.pag.chan = Append(@, p.held[1]),
                                 !.pag.held = None,
                                 !.pag.pc = "acquire"])
           ELSE w
      [] p.pc = "acquire" ->
           IF p.perm > 0
           THEN IF p.done
                THEN [w EXCEPT !.pag.perm = @ - 1,
                               !.pag.pc = "finished",
                               !.pag.closed = TRUE]
                ELSE PagRun(IssueRequest([w EXCEPT !.pag.perm = @ - 1,
                                                   !.pag.pc = "orchestrate"]))
           ELSE w
      [] OTHER -> w

\* FnStream::poll_next of the paginator stream
PagPoll(w) ==
    LET r == RxPollRecv(w.pag)
        w1 == [w EXCEPT !.pag = r.c]
    IN IF r.res.ready THEN [w |-> w1, res |-> r.res]
       ELSE [w |-> PagRun(w1), res |-> Pending]

RECURSIVE FlatRun(_)
\* one poll of the flat_map generator future: runs until it blocks
FlatRun(w) ==
    LET f == w.flat IN
    CASE f.pc = "next" ->
           LET r == PagPoll(w) IN
           IF ~r.res.ready THEN r.w
           ELSE IF r.res.item = None
           THEN [r.w EXCEPT !.flat.pc = "finished", !.flat.closed = TRUE]
           ELSE LET page == r.res.item[1] IN
                IF page.ok
                THEN FlatRun([r.w EXCEPT !.flat.buf = FlatMapFn(page.val),
                                         !.flat.pc = "for"])
                ELSE FlatRun([r.w EXCEPT !.flat.held = Some(Err(page.err)),
                                         !.flat.pc = "send_err"])
      [] f.pc = "for" ->
           IF f.buf = <<>>
           THEN FlatRun([w EXCEPT !.flat.pc = "next"])
           ELSE FlatRun([w EXCEPT !.flat.held = Some(Ok(Head(f.buf))),
                                  !.flat.buf = Tail(@),
                                  !.flat.pc = "send"])
      [] f.pc \in {"send", "send_err"} ->
           IF Len(f.chan) < ChanCap
           THEN FlatRun([w EXCEPT !.flat.chan = Append(@, f.held[1]),
                                  !.flat.held = None,
                                  !.flat.pc = IF f.pc = "send" THEN "acquire"
                                              ELSE "acquire_err"])
           ELSE w
      [] f.pc = "acquire" ->
           IF f.perm > 0
           THEN FlatRun([w EXCEPT !.flat.perm = @ - 1, !.flat.pc = "for"])
           ELSE w
      [] f.pc = "acquire_err" ->
           IF f.perm > 0
           THEN [w EXCEPT !.flat.perm = @ - 1,
                          !.flat.pc = "finished",
                          !.flat.closed = TRUE]
           ELSE w
      [] OTHER -> w

\* FnStream::poll_next of the flattened stream
FlatPoll(w) ==
    LET r == RxPollRecv(w.flat)
        w1 == [w EXCEPT !.flat = r.c]
    IN IF r.res.ready THEN [w |-> w1, res |-> r.res]
       ELSE [w |-> FlatRun(w1), res |-> Pending]

\* variant: after an item the wrapped stream is polled once more to prefetch
PaginiationPollEager(w) ==
    LET r == FlatPoll(w)
    IN IF r.res.ready /\ r.res.item # None
       THEN [w |-> FlatPoll(r.w).w, res |-> r.res]
       ELSE r

\* FuturesPaginiationStream::poll_next: forwards the poll to the wrapped stream
PaginiationPollNext(w) == FlatPoll(w)

\* ---------------------------------------------------------------- get_object
\* client.get_object().bucket(bucket).key(key)
GetRequest(bucket, key) == [bucket |-> bucket, key |-> key]

\* ByteStream (the SDK body) before any chunk has arrived
NewBody(bytes) ==
    [rest |-> bytes, slot |-> None, term |-> FALSE, failed |-> FALSE,
     empties |-> MaxEmptyChunks]

NoBody == NewBody(<<>>)

\* ByteStream::poll_next: hands over what the transport has delivered
ByteStreamPoll(b) ==
    IF b.term THEN [b |-> b, res |-> Ready(None)]
    ELSE IF b.slot = None THEN [b |-> b, res |-> Pending]
    ELSE LET ev == b.slot[1] IN
         CASE ev.kind = "chunk" ->
                [b |-> [b EXCEPT !.slot = None],
                 res |-> Ready(Some(Ok(ev.data)))]
           [] ev.kind = "err" ->
                [b |-> [b EXCEPT !.slot = None, !.term = TRUE],
                 res |-> Ready(Some(Err(ev.data)))]
           [] OTHER ->
                [b |-> [b EXCEPT !.slot = None, !.term = TRUE],
                 res |-> Ready(None)]

\* std::io::Error::other(e)
IoErrorOther(e) == [kind |-> "Other", source |-> e]

\* Poll<Option<Result<_, E>>>::map_err(std::io::Error::other)
MapErrIoOther(res) ==
    IF res.ready /\ res.item # None /\ ~res.item[1].ok
    THEN Ready(Some(Err(IoErrorOther(res.item[1].err))))
    ELSE res

\* variant: every chunk is passed on without its first byte
StreamCompatSliceChunk(b) ==
    LET r == ByteStreamPoll(b)
    IN IF r.res.ready /\ r.res.item # None /\ r.res.item[1].ok
          /\ r.res.item[1].val # <<>>
       THEN [b |-> r.b,
             res |-> Ready(Some(Ok(Tail(r.res.item[1].val)))),
             wrapped |-> <<r.res>>]
       ELSE [b |-> r.b, res |-> MapErrIoOther(r.res), wrapped |-> <<r.res>>]

\* variant: a transport error is turned into the end of the stream
StreamCompatSwallowErr(b) ==
    LET r == ByteStreamPoll(b)
    IN [b |-> r.b,
        res |-> IF r.res.ready /\ r.res.item # None /\ ~r.res.item[1].ok
                THEN Ready(None) ELSE r.res,
        wrapped |-> <<r.res>>]

\* FuturesStreamCompatByteStream::poll_next; wrapped logs the polls it made of
\* the wrapped ByteStream
StreamCompatPollNext(b) ==
    LET r == ByteStreamPoll(b)
    IN [b |-> r.b, res |-> MapErrIoOther(r.res), wrapped |-> <<r.res>>]

\* .into_async_read(): IntoAsyncRead starts in ReadState::PendingChunk
NewReader == [state |-> "PendingChunk", chunk |-> <<>>, chunk_start |-> 0]

Min(a, b) == IF a <= b THEN a ELSE b

RECURSIVE ReadRun(_, _)
\* IntoAsyncRead::poll_read with a buffer of n bytes; x = [rd, b, log]
ReadRun(x, n) ==
    CASE x.rd.state = "Ready" ->
           LET len == Min(n, Len(x.rd.chunk) - x.rd.chunk_start)
               start == x.rd.chunk_start + len
           IN [rd |-> IF Len(x.rd.chunk) = start
                      THEN NewReader
                      ELSE [x.rd EXCEPT !.chunk_start = start],
               b |-> x.b, log |-> x.log, ready |-> TRUE, ok |-> TRUE,
               len |-> len,
               bytes |-> SubSeq(x.rd.chunk, x.rd.chunk_start + 1, start),
               err |-> None]
      [] x.rd.state = "PendingChunk" ->
           LET p == StreamCompatPollNext(x.b)
               log == Append(x.log, [wrapped |-> p.wrapped, bridge |-> p.res])
               stop(rd, ready, ok, err) ==
                   [rd |-> rd, b |-> p.b, log |-> log, ready |-> ready,
                    ok |-> ok, len |-> 0, bytes |-> <<>>, err |-> err]
           IN IF ~p.res.ready THEN stop(x.rd, FALSE, TRUE, None)
              ELSE IF p.res.item = None
              THEN stop([x.rd EXCEPT !.state = "Eof"], TRUE, TRUE, None)
              ELSE IF ~p.res.item[1].ok
              THEN stop([x.rd EXCEPT !.state = "Eof"], TRUE, FALSE,
                        Some(p.res.item[1].err))
              ELSE ReadRun([rd |-> IF p.res.item[1].val # <<>>
                                   THEN [state |-> "Ready",
                                         chunk |-> p.res.item[1].val,
                                         chunk_start |-> 0]
                                   ELSE x.rd,
                            b |-> p.b, log |-> log], n)
      [] OTHER ->
           [rd |-> x.rd, b |-> x.b, log |-> x.log, ready |-> TRUE, ok |-> TRUE,
            len |-> 0, bytes |-> <<>>, err |-> None]

\* variant: the service error is replaced by a generic one
GetObjectResultMapped(resp) ==
    IF resp.ok THEN [ok |-> TRUE, reader |-> Some(NewReader), err |-> "-"]
    ELSE [ok |-> FALSE, reader |-> None, err |-> "Other"]

\* get_object after req.send().await: `?` returns the error as it is, a
\* successful response is wrapped into the reader
GetObjectResult(resp) ==
    IF resp.ok THEN [ok |-> TRUE, reader |-> Some(NewReader), err |-> "-"]
    ELSE [ok |-> FALSE, reader |-> None, err |-> resp.err]

\* ---------------------------------------------------------------- get_client
DefaultEdgePort == <<"4", "5", "6", "6">>

HostNames == {<<"l", "o", "c", "a", "l">>, <<"b", "a", "d", " ", "h">>}

EdgePorts == {<<"4", "5", "6", "7">>}

\* characters a URI authority may not contain
ValidAuthority(host, port) ==
    /\ host # <<>>
    /\ \A i \in DOMAIN host : host[i] # " "
    /\ \A i \in DOMAIN port : port[i] # " "

\* localstack::get_endpoint_uri: Ok(None) without LOCALSTACK_HOSTNAME, else
\* http://{hostname}:{EDGE_PORT or 4566}, or an error when that is no valid URI
GetEndpointUri(e) ==
    IF e.hostname = None THEN Ok(None)
    ELSE LET port == IF e.port = None THEN DefaultEdgePort ELSE e.port[1]
         IN IF ValidAuthority(e.hostname[1], port)
            THEN Ok(Some([scheme |-> "http", host |-> e.hostname[1],
                          port |-> port]))
            ELSE Err("InvalidUri")

\* Uri::to_string
UriToString(u) == <<u.scheme, "://">> \o u.host \o <<":">> \o u.port

\* Builder::from(shared_config)
BuilderFrom(shared) ==
    [endpoint_url |-> shared.endpoint_url, force_path_style |-> None]

\* variant: the endpoint is rewritten but path-style addressing is not forced
GetClientNoPathStyle(shared, e) ==
    LET uri == GetEndpointUri(e)
        builder == BuilderFrom(shared)
    IN IF ~uri.ok THEN Err(uri.err)
       ELSE IF uri.val # None
       THEN Ok([builder EXCEPT !.endpoint_url = Some(UriToString(uri.val[1]))])
       ELSE Ok(builder)

\* get_client(shared_config) under environment e
GetClientResult(shared, e) ==
    LET uri == GetEndpointUri(e)
        builder == BuilderFrom(shared)
    IN IF ~uri.ok THEN Err(uri.err)
       ELSE IF uri.val # None
       THEN Ok([builder EXCEPT !.endpoint_url = Some(UriToString(uri.val[1])),
                               !.force_path_style = Some(TRUE)])
       ELSE Ok(builder)

VARIABLES
    store,      \* service: bucket name -> ordered objects
    svc,        \* service: budgets for empty pages and faults, page serial
    op,         \* operation the program has called
    req,        \* ListObjectsV2 request built by list_objects
    pag,        \* paginator stream (req.send()): generator + rendezvous channel
    flat,       \* TryFlatMap::flat_map stream: generator + rendezvous channel
    net,        \* the page request in flight / its response
    issued,     \* log of page requests issued
    served,     \* entries the service has returned in pages so far, in order
    args,       \* arguments the caller gave to the operation
    out,        \* items the caller has received from the stream
    ended,      \* the caller has received end-of-stream
    polled,     \* the caller has polled the stream at least once
    gnet,       \* the GetObject request: its state, response and send count
    gres,       \* what get_object returned to the caller
    body,       \* the SDK ByteStream of the response
    reader,     \* the IntoAsyncRead behind the returned reader
    rlog,       \* polls of the bridge and of the wrapped body in the last read
    rd,         \* caller's reading: bytes read, byte count, outcome
    cenv,       \* environment and shared config seen by get_client
    cres        \* what get_client returned

listVars ==
    <<store, svc, op, args, req, pag, flat, net, issued, served, out, ended,
      polled>>

getVars == <<gnet, gres, body, reader, rlog, rd>>

clientVars == <<cenv, cres>>

vars == <<listVars, getVars, clientVars>>

Init ==
    /\ \E mask \in SUBSET (1..NumKeys) :
          store = [b \in {"test-bucket", "empty-bucket"} |->
                      IF b = "test-bucket" THEN SubSeqOf(mask, 1) ELSE <<>>]
    /\ svc = [empties |-> MaxEmptyPages, faults |-> MaxFaults, serial |-> 1]
    /\ op = "none"
    /\ req = ListRequest("", None)
    /\ pag = NewPaginator
    /\ flat = NewFlatMap
    /\ net = <<>>
    /\ issued = <<>>
    /\ served = <<>>
    /\ args = [bucket |-> "", prefix |-> None, key |-> <<>>]
    /\ gnet = [state |-> "none", resp |-> None, sent |-> 0]
    /\ gres = None
    /\ body = NoBody
    /\ reader = NewReader
    /\ rlog = <<>>
    /\ rd = [buf |-> <<>>, count |-> 0, outcome |-> "reading", err |-> None]
    /\ cenv = [hostname |-> None, port |-> None,
               shared |-> [endpoint_url |-> None]]
    /\ cres = None
    /\ out = <<>>
    /\ ended = FALSE
    /\ polled = FALSE

\* list_objects(client, bucket, prefix): builds the stream, requests nothing
ListObjects(bucket, prefix) ==
    /\ op = "none"
    /\ op' = "list"
    /\ args' = [bucket |-> bucket, prefix |-> prefix, key |-> <<>>]
    /\ req' = ListRequest(bucket, prefix)
    /\ pag' = NewPaginator
    /\ flat' = NewFlatMap
    /\ UNCHANGED <<store, svc, net, issued, served, out, ended, polled>>
    /\ UNCHANGED <<getVars, clientVars>>

\* the caller polls the stream returned by list_objects once
PollNext ==
    /\ op = "list"
    /\ ~ended
    /\ \E r \in {PaginiationPollNext(
                    [pag |-> pag, flat |-> flat, net |-> net,
                     issued |-> issued, delivered |-> Len(out),
                     served |-> Len(served)])} :
          /\ pag' = r.w.pag
          /\ flat' = r.w.flat
          /\ net' = r.w.net
          /\ issued' = r.w.issued
          /\ out' = IF r.res.ready /\ r.res.item # None
                    THEN Append(out, r.res.item[1]) ELSE out
          /\ ended' = (r.res.ready /\ r.res.item = None)
    /\ polled' = TRUE
    /\ UNCHANGED <<store, svc, op, args, req, served>>
    /\ UNCHANGED <<getVars, clientVars>>

\* answer of the service to the oldest page request in flight
Respond(resp, entries, svc2) ==
    /\ net' = <<[Head(net) EXCEPT !.state = "resp", !.resp = Some(resp)]>>
                  \o Tail(net)
    /\ served' = served \o entries
    /\ svc' = svc2
    /\ UNCHANGED <<store, op, args, req, pag, flat, issued, out, ended, polled>>
    /\ UNCHANGED <<getVars, clientVars>>

\* the S3 service (or the transport) completes a ListObjectsV2 request
ServiceListRespond ==
    /\ net # <<>>
    /\ Head(net).state = "inflight"
    /\ LET tok == Head(net).token
           pos == IF tok = None THEN 1 ELSE tok[1].pos
           nxt == [svc EXCEPT !.serial = @ + 1]
       IN IF req.bucket \notin DOMAIN store
          THEN Respond(Err("NoSuchBucket"), <<>>, svc)
          ELSE LET m == Matching(store[req.bucket], req.prefix)
                   rem == Len(m) - pos + 1
               IN \/ /\ svc.faults > 0
                     /\ Respond(Err("DispatchFailure"), <<>>,
                                [svc EXCEPT !.faults = @ - 1])
                  \/ /\ svc.empties > 0
                     /\ \E c \in {None, Some(<<>>)} :
                          Respond(Ok([contents |-> c,
                                      next |-> Some([pos |-> pos,
                                                     n |-> svc.serial])]),
                                  <<>>, [nxt EXCEPT !.empties = @ - 1])
                  \/ /\ rem = 0
                     /\ Respond(Ok([contents |-> None, next |-> None]), <<>>,
                                nxt)
                  \/ \E k \in 1..MaxPageSize :
                       /\ k <= rem
                       /\ Respond(Ok([contents |->
                                         Some(SubSeq(m, pos, pos + k - 1)),
                                      next |-> IF k < rem
                                               THEN Some([pos |-> pos + k,
                                                          n |-> svc.serial])
                                               ELSE None]),
                                  SubSeq(m, pos, pos + k - 1), nxt)

listState == <<req, pag, flat, net, issued, served, out, ended, polled>>

\* get_object(client, bucket, key) up to the await: sends the one request
GetObject(bucket, key) ==
    /\ op = "none"
    /\ op' = "get"
    /\ args' = [bucket |-> bucket, prefix |-> None, key |-> key]
    /\ gnet' = [state |-> "inflight", resp |-> None, sent |-> gnet.sent + 1]
    /\ UNCHANGED <<store, svc, listState, gres, body, reader, rlog, rd>>
    /\ UNCHANGED clientVars

\* the S3 service (or the transport) completes the GetObject request
ServiceGetRespond ==
    /\ gnet.state = "inflight"
    /\ LET r == GetRequest(args.bucket, args.key)
           answer(resp, svc2) ==
               /\ gnet' = [gnet EXCEPT !.state = "resp", !.resp = Some(resp)]
               /\ svc' = svc2
       IN IF r.bucket \notin DOMAIN store
          THEN answer(Err("NoSuchBucket"), svc)
          ELSE IF \A i \in DOMAIN store[r.bucket] :
                     store[r.bucket][i].key # r.key
          THEN answer(Err("NoSuchKey"), svc)
          ELSE \/ /\ svc.faults > 0
                  /\ answer(Err("DispatchFailure"),
                            [svc EXCEPT !.faults = @ - 1])
               \/ answer(Ok(BodyOf(KeyIndex(r.key))), svc)
    /\ UNCHANGED <<store, op, args, listState, gres, body, reader, rlog, rd>>
    /\ UNCHANGED clientVars

\* get_object resumes after the await and returns
GetObjectReturn ==
    /\ gnet.state = "resp"
    /\ gres = None
    /\ LET resp == gnet.resp[1]
           res == GetObjectResult(resp)
       IN /\ gres' = Some(res)
          /\ reader' = IF res.reader # None THEN res.reader[1] ELSE reader
          /\ body' = IF resp.ok THEN NewBody(resp.val) ELSE body
    /\ gnet' = [gnet EXCEPT !.state = "taken"]
    /\ UNCHANGED <<store, svc, op, args, listState, rlog, rd>>
    /\ UNCHANGED clientVars

BodyOpen == op = "get" /\ gnet.state = "taken" /\ gnet.resp[1].ok

\* the transport delivers the next chunk of the body, of any size
BodyChunk ==
    /\ BodyOpen
    /\ ~body.term
    /\ body.slot = None
    /\ \/ \E k \in 1..MaxChunk :
            /\ k <= Len(body.rest)
            /\ body' = [body EXCEPT
                          !.slot = Some([kind |-> "chunk",
                                         data |-> SubSeq(body.rest, 1, k)]),
                          !.rest = SubSeq(@, k + 1, Len(@))]
       \/ /\ body.empties > 0
          /\ body' = [body EXCEPT
                        !.slot = Some([kind |-> "chunk", data |-> <<>>]),
                        !.empties = @ - 1]
    /\ UNCHANGED <<store, svc, op, args, listState, gnet, gres, reader, rlog, rd>>
    /\ UNCHANGED clientVars

\* the transport reports the end of the body
BodyEnd ==
    /\ BodyOpen
    /\ ~body.term
    /\ body.slot = None
    /\ body.rest = <<>>
    /\ body' = [body EXCEPT !.slot = Some([kind |-> "eof", data |-> <<>>])]
    /\ UNCHANGED <<store, svc, op, args, listState, gnet, gres, reader, rlog, rd>>
    /\ UNCHANGED clientVars

\* the transport fails while the body is being streamed
BodyFail ==
    /\ BodyOpen
    /\ ~body.term
    /\ body.slot = None
    /\ svc.faults > 0
    /\ svc' = [svc EXCEPT !.faults = @ - 1]
    /\ body' = [body EXCEPT
                  !.slot = Some([kind |-> "err", data |-> "BodyTransport"]),
                  !.failed = TRUE]
    /\ UNCHANGED <<store, op, args, listState, gnet, gres, reader, rlog, rd>>
    /\ UNCHANGED clientVars

\* the caller reads from the returned reader into a buffer of n bytes; it stops
\* at the first Ok(0) or error, as read_to_end / read_to_string do
PollRead(n) ==
    /\ op = "get"
    /\ gres # None
    /\ gres[1].reader # None
    /\ rd.outcome = "reading"
    /\ \E r \in {ReadRun([rd |-> reader, b |-> body, log |-> <<>>], n)} :
          /\ reader' = r.rd
          /\ body' = r.b
          /\ rlog' = r.log
          /\ rd' = IF ~r.ready THEN rd
                   ELSE IF ~r.ok
                   THEN [rd EXCEPT !.outcome = "error", !.err = r.err]
                   ELSE [buf |-> rd.buf \o r.bytes,
                         count |-> rd.count + r.len,
                         outcome |-> IF r.len = 0 THEN "eof" ELSE "reading",
                         err |-> None]
    /\ UNCHANGED <<store, svc, op, args, listState, gnet, gres>>
    /\ UNCHANGED clientVars

\* get_client(shared_config) with the environment as it is at the call
GetClient(hostname, port, endpoint) ==
    /\ op = "none"
    /\ op' = "client"
    /\ cenv' = [hostname |-> hostname, port |-> port,
                shared |-> [endpoint_url |-> endpoint]]
    /\ cres' = Some(GetClientResult([endpoint_url |-> endpoint],
                                    [hostname |-> hostname, port |-> port]))
    /\ UNCHANGED <<store, svc, args, listState, getVars>>

Next ==
    \/ \E b \in BucketNames, p \in Prefixes : ListObjects(b, p)
    \/ PollNext
    \/ ServiceListRespond
    \/ \E b \in BucketNames, k \in GetKeys : GetObject(b, k)
    \/ ServiceGetRespond
    \/ GetObjectReturn
    \/ BodyChunk
    \/ BodyEnd
    \/ BodyFail
    \/ \E n \in 1..MaxBuf : PollRead(n)
    \/ \E h \in {None} \cup {Some(x) : x \in HostNames},
          p \in {None} \cup {Some(x) : x \in EdgePorts} \cup {Some(<<" ">>)},
          e \in {None, Some(<<"aws">>)} : GetClient(h, p, e)

Spec == Init /\ [][Next]_vars

\* fair scheduling: the caller keeps draining and the service keeps answering
LiveSpec ==
    /\ Spec
    /\ WF_vars(PollNext)
    /\ WF_vars(ServiceListRespond)

\* ---------------------------------------------------------------- properties
NoErr(items) == \A i \in DOMAIN items : items[i].ok

HasErr(items) == ~NoErr(items)

\* the objects carried by a sequence of Ok items
Vals(items) == [i \in DOMAIN items |-> items[i].val]

IsPrefixOf(a, b) == Len(a) <= Len(b) /\ a = SubSeq(b, 1, Len(a))

\* the objects of the caller's bucket whose key starts with the caller's prefix
Expected ==
    IF args.bucket \in DOMAIN store
    THEN SelectSeq(store[args.bucket],
                   LAMBDA o : args.prefix = None
                              \/ StartsWith(o.key, args.prefix[1]))
    ELSE <<>>

OkItems == SelectSeq(out, LAMBDA it : it.ok)

\* C1: draining the list_objects stream yields each matching object exactly
\* once, in the order the service delivered pages and entries: what the caller
\* has received is always a prefix of what the service has served, and once the
\* stream has ended without an error it is exactly the served entries, which
\* are exactly the matching objects.
C1_ExactlyOnceInOrder ==
    op = "list" =>
        /\ IsPrefixOf(Vals(OkItems), served)
        /\ (ended /\ NoErr(out)) =>
               /\ Vals(out) = served
               /\ Vals(out) = Expected

\* a drained listing that spanned several pages
C1_Witness ==
    /\ op = "list"
    /\ ended
    /\ NoErr(out)
    /\ Len(out) >= 2
    /\ Len(issued) >= 2

\* C2: a page-request failure is yielded as one error item that is the last
\* event of the stream: an error is only ever the last item received, after it
\* nothing more is yielded and no page is requested, a stream that ended after
\* a failed request ends with that error, and for a non-existent bucket the
\* NoSuchBucket error is the only event.
C2_ErrorIsLast ==
    /\ [](op = "list" =>
            /\ \A i \in DOMAIN out : ~out[i].ok => i = Len(out)
            /\ (ended /\ svc.faults < MaxFaults) =>
                   (out # <<>> /\ out[Len(out)] = Err("DispatchFailure"))
            /\ (args.bucket \notin DOMAIN store /\ (out # <<>> \/ ended)) =>
                   out = <<Err("NoSuchBucket")>>)
    /\ [][HasErr(out) => (out' = out /\ issued' = issued /\ net' = net)]_vars

\* a listing that failed after some objects had been yielded, and then ended
C2_Witness ==
    /\ op = "list"
    /\ ended
    /\ Len(out) >= 2
    /\ ~out[Len(out)].ok

EmptyCase ==
    /\ op = "list"
    /\ args.bucket \in DOMAIN store
    /\ Expected = <<>>

\* C3: listing an existing bucket that is empty, or with a prefix that matches
\* no key, yields no object and (when no request fails) no error, and the
\* stream ends.
C3_EmptyListing ==
    /\ [](EmptyCase => OkItems = <<>>)
    /\ []((EmptyCase /\ svc.faults = MaxFaults) => out = <<>>)
    /\ (EmptyCase ~> ended)

\* an ended listing of a non-empty bucket under a prefix that matches nothing
C3_Witness ==
    /\ EmptyCase
    /\ ended
    /\ out = <<>>
    /\ args.prefix # None
    /\ store[args.bucket] # <<>>

\* C4: with Some(prefix) the drained stream holds exactly the objects whose key
\* starts with the literal prefix string, whether or not it ends in a separator
\* and including nested prefixes; with None it holds every object of the bucket.
C4_LiteralPrefix ==
    (op = "list" /\ ended /\ NoErr(out) /\ args.bucket \in DOMAIN store) =>
        /\ \A o \in {store[args.bucket][i] : i \in DOMAIN store[args.bucket]} :
              (\E i \in DOMAIN out : out[i].val = o)
                  <=> (args.prefix = None \/ StartsWith(o.key, args.prefix[1]))
        /\ Len(out) = Len(Expected)
        /\ args.prefix = None => Vals(out) = store[args.bucket]

\* a drained listing under a prefix without trailing separator that selected a
\* key continuing with a non-separator character and left another key out
C4_Witness ==
    /\ op = "list"
    /\ ended
    /\ NoErr(out)
    /\ args.prefix = Some(<<"p">>)
    /\ \E i \in DOMAIN out : out[i].val.key = <<"p", "q">>
    /\ \E i \in DOMAIN out : out[i].val.key = <<"p", "/", "f">>
    /\ Len(out) = 2

\* C8: page requests are issued one at a time and only on caller demand: none
\* before the first poll, at most one in flight, each one only when every entry
\* served so far has been handed to the caller, and only inside a poll.
C8_SequentialOnDemand ==
    /\ [](/\ ~polled => issued = <<>>
          /\ Len(net) <= 1
          /\ \A i \in DOMAIN issued : issued[i].delivered = issued[i].served)
    /\ [][issued' # issued => PollNext]_vars

\* a second page was requested after the first page's entries were delivered
C8_Witness ==
    /\ Len(issued) >= 2
    /\ issued[2].delivered >= 1
    /\ net # <<>>

EmptyPageServed == svc.empties < MaxEmptyPages

\* C9: a successfully fetched page without entries yields no item, is no error
\* and does not end the stream: once such a page has been served, what the
\* caller has received is still a prefix of the matching objects, no error
\* appears unless a request failed, and a stream that ended without an error
\* holds every matching object, those of the later pages included.
C9_EmptyPageAdvances ==
    (op = "list" /\ EmptyPageServed) =>
        /\ IsPrefixOf(Vals(OkItems), Expected)
        /\ (svc.faults = MaxFaults) => NoErr(out)
        /\ (ended /\ NoErr(out)) => Vals(out) = Expected

\* an empty page was served and the drained listing still holds objects
C9_Witness ==
    /\ op = "list"
    /\ EmptyPageServed
    /\ ended
    /\ NoErr(out)
    /\ Len(out) >= 2

\* the stored object the caller of get_object asked for
StoredBody == BodyOf(KeyIndex(args.key))

StoredSize ==
    LET objs == store[args.bucket]
    IN objs[CHOOSE i \in DOMAIN objs : objs[i].key = args.key].size

\* C5: fully reading the reader of a successful get_object yields exactly the
\* stored bytes in order, however the body was split into chunks and whatever
\* buffer sizes were used, and the byte count equals the stored size; while
\* reading, the bytes read are a prefix of the stored bytes.
C5_RoundTrip ==
    (op = "get" /\ gres # None /\ gres[1].reader # None) =>
        /\ IsPrefixOf(rd.buf, StoredBody)
        /\ rd.count = Len(rd.buf)
        /\ rd.outcome = "eof" =>
               /\ rd.buf = StoredBody
               /\ rd.count = StoredSize

\* a body longer than the largest chunk was read to its end
C5_Witness ==
    /\ op = "get"
    /\ rd.outcome = "eof"
    /\ Len(rd.buf) >= 4
    /\ rd.count = Len(rd.buf)

\* C6: get_object sends a single request; for a missing bucket or key it
\* returns the service error unmodified, without a reader and without any byte
\* read; a reader is returned only for a successful response.
C6_GetObjectError ==
    op = "get" =>
        /\ gnet.sent = 1
        /\ gres # None =>
               /\ gres[1].ok = gnet.resp[1].ok
               /\ gres[1].reader # None => gnet.resp[1].ok
               /\ ~gres[1].ok =>
                      /\ gres[1].reader = None
                      /\ gres[1].err = gnet.resp[1].err
                      /\ rd.buf = <<>>
                      /\ rd.count = 0
                      /\ rlog = <<>>
               /\ args.bucket \notin DOMAIN store =>
                      (~gres[1].ok /\ gres[1].err = "NoSuchBucket")
               /\ (/\ args.bucket \in DOMAIN store
                   /\ \A i \in DOMAIN store[args.bucket] :
                         store[args.bucket][i].key # args.key) =>
                      (~gres[1].ok /\ gres[1].err = "NoSuchKey")

\* get_object has returned NoSuchKey for a key missing from a non-empty bucket
C6_Witness ==
    /\ op = "get"
    /\ gres # None
    /\ ~gres[1].ok
    /\ gres[1].err = "NoSuchKey"
    /\ store[args.bucket] # <<>>

\* C7: with a LocalStack hostname that forms a valid URI the client uses that
\* endpoint and path-style addressing; with a hostname that forms no valid URI
\* get_client returns an error and no client; without the hostname the client
\* keeps the endpoint and addressing style of the shared configuration.
C7_GetClient ==
    (op = "client" /\ cres # None) =>
        LET port == IF cenv.port = None THEN <<"4", "5", "6", "6">>
                    ELSE cenv.port[1]
            valid == /\ cenv.hostname # None
                     /\ cenv.hostname[1] # <<>>
                     /\ \A i \in DOMAIN cenv.hostname[1] :
                           cenv.hostname[1][i] # " "
                     /\ \A i \in DOMAIN port : port[i] # " "
        IN /\ (cenv.hostname # None /\ valid) =>
                  /\ cres[1].ok
                  /\ cres[1].val.endpoint_url
                        = Some(<<"http", "://">> \o cenv.hostname[1]
                                 \o <<":">> \o port)
                  /\ cres[1].val.force_path_style = Some(TRUE)
           /\ (cenv.hostname # None /\ ~valid) => ~cres[1].ok
           /\ cenv.hostname = None =>
                  /\ cres[1].ok
                  /\ cres[1].val.endpoint_url = cenv.shared.endpoint_url
                  /\ cres[1].val.force_path_style = None

\* a client redirected to the override host on the default port
C7_Witness ==
    /\ op = "client"
    /\ cenv.hostname = Some(<<"l", "o", "c", "a", "l">>)
    /\ cenv.port = None
    /\ cres # None
    /\ cres[1].ok
    /\ cres[1].val.force_path_style = Some(TRUE)

\* what the bridge has to return for a result of the wrapped body
BridgeExpected(wr) ==
    IF wr.ready /\ wr.item # None /\ ~wr.item[1].ok
    THEN Ready(Some(Err([kind |-> "Other", source |-> wr.item[1].err])))
    ELSE wr

\* equality of two poll results, compared field by field
SameRes(a, b) ==
    /\ a.ready = b.ready
    /\ (a.item = None) = (b.item = None)
    /\ (a.item # None /\ b.item # None) =>
           /\ a.item[1].ok = b.item[1].ok
           /\ (a.item[1].ok /\ b.item[1].ok) => a.item[1].val = b.item[1].val
           /\ (~a.item[1].ok /\ ~b.item[1].ok) => a.item[1].err = b.item[1].err

\* C10: the byte-stream bridge is a 1:1 pass-through: every poll of it polls
\* the wrapped body exactly once and returns Pending for Pending, the chunk
\* unchanged, end-of-stream for end-of-stream and an I/O error wrapping the
\* original error for an error; so a body failing mid-stream gives the bytes
\* transported before the failure, in order, then an I/O error, never a clean
\* end-of-stream.
C10_BridgePassThrough ==
    op = "get" =>
        /\ \A i \in DOMAIN rlog :
              /\ Len(rlog[i].wrapped) = 1
              /\ SameRes(rlog[i].bridge, BridgeExpected(rlog[i].wrapped[1]))
        /\ rd.outcome = "error" =>
               /\ rd.err = Some([kind |-> "Other", source |-> "BodyTransport"])
               /\ rd.buf \o body.rest = StoredBody
        /\ body.failed => rd.outcome # "eof"

\* a read failed with the I/O error after bytes had been delivered
C10_Witness ==
    /\ op = "get"
    /\ rd.outcome = "error"
    /\ Len(rd.buf) >= 2
    /\ Len(rlog) >= 1

====
